---- MODULE Spec2Model ----
(***************************************************************************)
(* Model of the TBALL market-data pipeline:                                *)
(*   src/modules/data_collectors/transaction_data_collector.py             *)
(*   src/modules/market_data_fetcher.py                                    *)
(*   src/modules/data_collectors/market_data_fetcher.py                    *)
(*                                                                         *)
(* Four parts share one module:                                            *)
(*   - the transactions table and save_transactions_to_db, called          *)
(*     sequentially (SpecStore) and by two concurrent callers (SpecConc);  *)
(*   - extract_transaction_data as a pure function (SpecExtract) and the   *)
(*     normalization step of main (SpecMain);                              *)
(*   - the three retry loops get_tball_transactions, get_tball_signatures  *)
(*     and parse_transactions_in_batches (SpecFetch).                      *)
(***************************************************************************)
EXTENDS Integers, Sequences, FiniteSets, TLC

VARIABLES
    \* --- the transactions table (sqlite file at db_path) ---
    tableExists,      \* CREATE TABLE IF NOT EXISTS has run
    schema,           \* the script whose CREATE TABLE made the table
    table,            \* committed rows of the transactions table
    lastVersion,      \* history: per signature, the version last saved (0: never)
    firstId,          \* history: per signature, the id its row got on insert (0: never)
    rewritten,        \* history: signatures written again while already stored
    repeated,         \* history of save_transactions_to_db: signatures that came
                      \* more than once in one batch
    changed,          \* history of save_transactions_to_db: signatures whose row a
                      \* later version replaced
    \* --- two concurrent save_transactions_to_db calls ---
    cpc,              \* per caller: position in save_transactions_to_db
    cbatch,           \* per caller: the batch it was given
    cidx,             \* per caller: index of the record being written
    cfound,           \* per caller: result of the SELECT for that record
    cpending,         \* per caller: rows as seen inside its open write transaction
    cintxn,           \* per caller: an implicit transaction is open
    cerr,             \* per caller: the exception that ended the call, if any
    lockHolder,       \* the caller holding sqlite's write lock, or NoCaller
    \* --- extract_transaction_data on one raw transaction ---
    tx,               \* the raw transaction (a JSON object)
    extracted,        \* the outcome of extract_transaction_data(tx)
    xpc,              \* "start" | "done"
    \* --- the normalization step of main ---
    tball_transactions,  \* the fetched raw transactions
    all_transactions,    \* the records kept after both list comprehensions
    reported,            \* signatures of the transactions whose error was printed
    mpc,                 \* "fetched" | "normalized"
    \* --- the retry loops ---
    fop,              \* which function runs
    fvariant,         \* which of the two market_data_fetcher.py files
    fpc,              \* "loop" | "done"
    limit,            \* the limit argument (get_tball_transactions, get_tball_signatures)
    signatures,       \* get_tball_signatures: collected; parse...: the argument
    before_signature, \* get_tball_signatures: the cursor
    batch_size,       \* parse_transactions_in_batches: the batch_size argument
    bi,               \* parse_transactions_in_batches: the for loop's i
    parsed_transactions, \* parse_transactions_in_batches: the accumulator
    retries,          \* the attempt counter of the running loop
    flog,             \* history: every request issued, with its response
    fresult           \* the returned value

storeVars == <<tableExists, schema, table, lastVersion, firstId, rewritten, repeated,
               changed>>
concVars == <<cpc, cbatch, cidx, cfound, cpending, cintxn, cerr, lockHolder>>
extractVars == <<tx, extracted, xpc>>
mainVars == <<tball_transactions, all_transactions, reported, mpc>>
fetchVars == <<fop, fvariant, fpc, limit, signatures, before_signature, batch_size,
               bi, parsed_transactions, retries, flog, fresult>>
vars == <<storeVars, concVars, extractVars, mainVars, fetchVars>>

(***************************************************************************)
(* Bounds of the model.                                                    *)
(***************************************************************************)
NumSigs == 2
MaxBatch == 2

Signatures == 1..NumSigs
\* Two ingestions of a signature that differ in every column.
Versions == {1, 2}

RECURSIVE SeqsUpTo(_, _)
SeqsUpTo(S, n) ==
    IF n <= 0 THEN {<<>>}
    ELSE LET shorter == SeqsUpTo(S, n - 1)
         IN  shorter \cup {Append(s, x) : s \in {t \in shorter : Len(t) = n - 1}, x \in S}

Min(a, b) == IF a <= b THEN a ELSE b

(***************************************************************************)
(* The transactions table.                                                 *)
(***************************************************************************)

\* A record as extract_transaction_data returns it: the signature and the
\* fifteen other keys. `v` stands for one ingestion of that signature; every
\* column takes a different value in every version and columns differ from
\* each other, so a column that is not written, or written from the wrong
\* key, shows.
TxRecord(sig, v) ==
    [signature |-> sig,
     timestamp |-> 1000 + v,
     transaction_type |-> IF v % 3 = 1 THEN "Transfer"
                          ELSE IF v % 3 = 2 THEN "Swap" ELSE "MultiSwap",
     from_wallet |-> <<"from", v>>,
     to_wallet |-> <<"to", v>>,
     tball_amount |-> 10 * v,
     wsol_amount |-> 20 * v,
     other_token_amount |-> 30 * v,
     other_token_mint |-> <<"mint", v>>,
     aggregators |-> <<"aggregators", v>>,
     referral_fees |-> 40 * v,
     referral_vault |-> <<"vault", v>>,
     intermediate_swaps |-> <<"hops", v>>,
     fee |-> 50 * v,
     success |-> (v % 2 = 1),
     raw_data |-> <<"raw", sig, v>>]

TxRecords == {TxRecord(s, v) : s \in Signatures, v \in Versions}

VersionOf(rec) == CHOOSE v \in Versions : rec = TxRecord(rec.signature, v)

\* SELECT id FROM transactions WHERE signature = ?
SelectId(rows, sig) == {r.id : r \in {q \in rows : q.signature = sig}}

\* id INTEGER PRIMARY KEY without AUTOINCREMENT: sqlite gives a new row the
\* largest id in the table plus one.
NextRowId(rows) ==
    IF rows = {} THEN 1
    ELSE (CHOOSE m \in {r.id : r \in rows} : \A r \in rows : r.id <= m) + 1

\* signature TEXT UNIQUE: an INSERT of a stored signature raises IntegrityError.
ViolatesUnique(rows, rec) == \E r \in rows : r.signature = rec.signature

\* A faulty UPDATE whose SET list lacks fee.
UpdateRowWithoutFee(rows, rec) ==
    {IF r.signature = rec.signature
     THEN [id |-> r.id,
           signature |-> r.signature,
           timestamp |-> rec.timestamp,
           transaction_type |-> rec.transaction_type,
           from_wallet |-> rec.from_wallet,
           to_wallet |-> rec.to_wallet,
           tball_amount |-> rec.tball_amount,
           wsol_amount |-> rec.wsol_amount,
           other_token_amount |-> rec.other_token_amount,
           other_token_mint |-> rec.other_token_mint,
           aggregators |-> rec.aggregators,
           referral_fees |-> rec.referral_fees,
           referral_vault |-> rec.referral_vault,
           intermediate_swaps |-> rec.intermediate_swaps,
           fee |-> r.fee,
           success |-> rec.success,
           raw_data |-> rec.raw_data]
     ELSE r : r \in rows}

\* A faulty UPDATE without its WHERE clause: the SET list is applied to every
\* row of the table.
UpdateRowWithoutWhere(rows, rec) ==
    {[k \in DOMAIN r |-> IF k \in {"id", "signature"} THEN r[k] ELSE rec[k]] : r \in rows}

\* UPDATE transactions SET <the fifteen columns> WHERE signature = ?
UpdateRow(rows, rec) ==
    {IF r.signature = rec.signature
     THEN [id |-> r.id,
           signature |-> r.signature,
           timestamp |-> rec.timestamp,
           transaction_type |-> rec.transaction_type,
           from_wallet |-> rec.from_wallet,
           to_wallet |-> rec.to_wallet,
           tball_amount |-> rec.tball_amount,
           wsol_amount |-> rec.wsol_amount,
           other_token_amount |-> rec.other_token_amount,
           other_token_mint |-> rec.other_token_mint,
           aggregators |-> rec.aggregators,
           referral_fees |-> rec.referral_fees,
           referral_vault |-> rec.referral_vault,
           intermediate_swaps |-> rec.intermediate_swaps,
           fee |-> rec.fee,
           success |-> rec.success,
           raw_data |-> rec.raw_data]
     ELSE r : r \in rows}

\* INSERT INTO transactions (signature, <the fifteen columns>) VALUES (...)
InsertRow(rows, rec) ==
    rows \cup {[id |-> NextRowId(rows),
                signature |-> rec.signature,
                timestamp |-> rec.timestamp,
                transaction_type |-> rec.transaction_type,
                from_wallet |-> rec.from_wallet,
                to_wallet |-> rec.to_wallet,
                tball_amount |-> rec.tball_amount,
                wsol_amount |-> rec.wsol_amount,
                other_token_amount |-> rec.other_token_amount,
                other_token_mint |-> rec.other_token_mint,
                aggregators |-> rec.aggregators,
                referral_fees |-> rec.referral_fees,
                referral_vault |-> rec.referral_vault,
                intermediate_swaps |-> rec.intermediate_swaps,
                fee |-> rec.fee,
                success |-> rec.success,
                raw_data |-> rec.raw_data]}

\* A faulty iteration that inserts without the existence check, into a table
\* without the UNIQUE constraint.
SaveRecordWithoutSelect(rows, rec) == InsertRow(rows, rec)

\* One iteration of the for loop of save_transactions_to_db, on the rows the
\* connection sees: SELECT, then UPDATE if a row came back, else INSERT.
SaveRecord(rows, rec) ==
    IF SelectId(rows, rec.signature) # {}
    THEN UpdateRow(rows, rec)
    ELSE InsertRow(rows, rec)

\* The whole for loop over one batch, on one connection.
RECURSIVE SaveLoop(_, _)
SaveLoop(rows, batch) ==
    IF batch = <<>> THEN rows
    ELSE SaveLoop(SaveRecord(rows, Head(batch)), Tail(batch))

Batches == SeqsUpTo(TxRecords, MaxBatch) \ {<<>>}

SigsOf(batch) == {batch[i].signature : i \in 1..Len(batch)}

\* The last record of the batch carrying signature s.
LastIn(batch, s) ==
    batch[CHOOSE i \in 1..Len(batch) :
            /\ batch[i].signature = s
            /\ \A j \in (i + 1)..Len(batch) : batch[j].signature # s]

NoBatch == <<>>

\* The signatures that occur more than once in the batch.
Repeated(batch) ==
    {s \in SigsOf(batch) : Cardinality({i \in 1..Len(batch) : batch[i].signature = s}) > 1}

\* The signatures stored before the batch whose version the batch replaces.
Changed(batch) ==
    {s \in SigsOf(batch) :
        lastVersion[s] # 0 /\ lastVersion[s] # VersionOf(LastIn(batch, s))}

\* The three scripts keep their transactions table in the same file,
\* <root>/data/market_data/transactions.db, each with columns of its own;
\* the table has the columns of the script that created it.
Collector == "transaction_data_collector"
NoSchema == "none"

InitStore ==
    /\ tableExists = FALSE
    /\ schema = NoSchema
    /\ table = {}
    /\ lastVersion = [s \in Signatures |-> 0]
    /\ firstId = [s \in Signatures |-> 0]
    /\ rewritten = {}
    /\ repeated = {}
    /\ changed = {}

\* setup_database(): CREATE TABLE IF NOT EXISTS transactions (...); commit.
SetupDatabase ==
    /\ tableExists' = TRUE
    /\ schema' = IF tableExists THEN schema ELSE Collector
    /\ table' = table
    /\ UNCHANGED <<lastVersion, firstId, rewritten, repeated, changed>>
    /\ UNCHANGED <<concVars, extractVars, mainVars, fetchVars>>

\* A statement names a column the table does not have: the call raises
\* sqlite3.OperationalError and nothing is written.
WrongSchema == UNCHANGED storeVars

\* save_transactions_to_db(transactions) run to completion on its own
\* connection: the for loop, then conn.commit().
SaveTransactionsToDb(batch) ==
    /\ tableExists
    /\ schema = Collector
    /\ table' = SaveLoop(table, batch)
    /\ lastVersion' = [s \in Signatures |->
                         IF s \in SigsOf(batch) THEN VersionOf(LastIn(batch, s))
                         ELSE lastVersion[s]]
    /\ firstId' = [s \in Signatures |->
                     IF firstId[s] = 0 /\ s \in SigsOf(batch)
                     THEN CHOOSE i \in SelectId(table', s) : TRUE
                     ELSE firstId[s]]
    /\ rewritten' = rewritten \cup {s \in SigsOf(batch) : lastVersion[s] # 0}
    /\ repeated' = repeated \cup Repeated(batch)
    /\ changed' = changed \cup Changed(batch)
    /\ UNCHANGED <<tableExists, schema>>
    /\ UNCHANGED <<concVars, extractVars, mainVars, fetchVars>>

\* save_transactions_to_db on a table one of the fetcher scripts created:
\* the first SELECT names the column `signature`, which that table lacks.
SaveTransactionsToDbWrongSchema ==
    /\ tableExists
    /\ schema # Collector
    /\ WrongSchema
    /\ UNCHANGED <<concVars, extractVars, mainVars, fetchVars>>

(***************************************************************************)
(* The two market_data_fetcher.py scripts: the CREATE TABLE they run when  *)
(* loaded and save_all_transactions_to_db, on the module's one connection. *)
(***************************************************************************)
Fetchers == {"modules", "data_collectors"}

\* None bound to a statement: NULL.
SqlNull == <<>>

\* A dict as extract_all_transactions builds it, in each of the two files;
\* `v` stands for one ingestion of the signature, as in TxRecord.
FetcherRecord(variant, sig, v) ==
    IF variant = "modules"
    THEN [transaction_signature |-> sig,
          from_wallet |-> <<"from", v>>,
          to_wallet |-> <<"to", v>>,
          tball_amount |-> <<"tball", v>>,
          token_transfered |-> <<"mint", v>>,
          amount_transfered |-> <<"amount", v>>,
          transaction_type |-> IF v % 2 = 1 THEN "Swap" ELSE "Transfer",
          timestamp |-> 1000 + v]
    ELSE [transaction_signature |-> sig,
          from_wallet |-> <<"from", v>>,
          to_wallet |-> <<"to", v>>,
          tball_sent |-> <<"sent", v>>,
          tball_received |-> <<"received", v>>,
          wsol_sent |-> <<"wsol_sent", v>>,
          wsol_received |-> <<"wsol_received", v>>,
          transaction_type |-> IF v % 2 = 1 THEN "Swap" ELSE "Transfer",
          aggregator |-> <<"aggregator", v>>,
          timestamp |-> 1000 + v]

FetcherRecords(variant) == {FetcherRecord(variant, s, v) : s \in Signatures, v \in Versions}

FetcherBatches(variant) == SeqsUpTo(FetcherRecords(variant), MaxBatch) \ {<<>>}

FetcherVersionOf(variant, rec) ==
    CHOOSE v \in Versions : rec = FetcherRecord(variant, rec.transaction_signature, v)

\* The row INSERT INTO transactions (...) VALUES (...) makes of a record.
FetcherRow(variant, id, rec) ==
    IF variant = "modules"
    THEN [id |-> id,
          from_wallet |-> rec.from_wallet,
          to_wallet |-> rec.to_wallet,
          tball_amount |-> rec.tball_amount,
          token_transfered |-> IF rec.transaction_type = "Swap"
                               THEN rec.token_transfered ELSE SqlNull,
          amount_transfered |-> IF rec.transaction_type = "Swap"
                                THEN rec.amount_transfered ELSE SqlNull,
          transaction_signature |-> rec.transaction_signature,
          transaction_type |-> rec.transaction_type,
          timestamp |-> rec.timestamp]
    ELSE [id |-> id,
          from_wallet |-> rec.from_wallet,
          to_wallet |-> rec.to_wallet,
          tball_sent |-> rec.tball_sent,
          tball_received |-> rec.tball_received,
          token_transfered |-> SqlNull,
          amount_transfered |-> SqlNull,
          transaction_signature |-> rec.transaction_signature,
          transaction_type |-> rec.transaction_type,
          aggregator |-> rec.aggregator,
          timestamp |-> rec.timestamp]

\* transaction_signature TEXT UNIQUE
StoredSignature(rows, sig) == \E r \in rows : r.transaction_signature = sig

\* One iteration of the for loop of save_all_transactions_to_db: the INSERT,
\* or, on sqlite3.IntegrityError, the message "already exists in the
\* database, skipping insert" and nothing else.
SaveAllRecord(variant, rows, rec) ==
    IF StoredSignature(rows, rec.transaction_signature)
    THEN rows
    ELSE rows \cup {FetcherRow(variant, NextRowId(rows), rec)}

RECURSIVE SaveAllLoop(_, _, _)
\* The whole for loop over one list of records.
SaveAllLoop(variant, rows, batch) ==
    IF batch = <<>> THEN rows
    ELSE SaveAllLoop(variant, SaveAllRecord(variant, rows, Head(batch)), Tail(batch))

FetcherSigsOf(batch) == {batch[i].transaction_signature : i \in 1..Len(batch)}

\* The last record of the list carrying signature s.
FetcherLastIn(batch, s) ==
    batch[CHOOSE i \in 1..Len(batch) :
            /\ batch[i].transaction_signature = s
            /\ \A j \in (i + 1)..Len(batch) : batch[j].transaction_signature # s]

\* A faulty table creation that starts from an empty table each time the
\* script is loaded (DROP TABLE IF EXISTS before the CREATE TABLE).
CreateFetcherTableAfterDrop(variant) ==
    /\ tableExists' = TRUE
    /\ schema' = variant
    /\ table' = {}
    /\ UNCHANGED <<lastVersion, firstId, rewritten, repeated, changed>>
    /\ UNCHANGED <<concVars, extractVars, mainVars, fetchVars>>

\* Loading the module: CREATE TABLE IF NOT EXISTS transactions (...); commit.
CreateFetcherTable(variant) ==
    /\ tableExists' = TRUE
    /\ schema' = IF tableExists THEN schema ELSE variant
    /\ table' = table
    /\ UNCHANGED <<lastVersion, firstId, rewritten, repeated, changed>>
    /\ UNCHANGED <<concVars, extractVars, mainVars, fetchVars>>

\* save_all_transactions_to_db(transactions): the for loop, then conn.commit().
SaveAllTransactionsToDb(variant, batch) ==
    /\ tableExists
    /\ schema = variant
    /\ table' = SaveAllLoop(variant, table, batch)
    /\ lastVersion' = [s \in Signatures |->
                         IF s \in FetcherSigsOf(batch)
                         THEN FetcherVersionOf(variant, FetcherLastIn(batch, s))
                         ELSE lastVersion[s]]
    /\ firstId' = [s \in Signatures |->
                     IF firstId[s] = 0 /\ s \in FetcherSigsOf(batch)
                     THEN CHOOSE i \in {r.id : r \in {q \in table' : q.transaction_signature = s}} : TRUE
                     ELSE firstId[s]]
    /\ rewritten' = rewritten \cup {s \in FetcherSigsOf(batch) : lastVersion[s] # 0}
    /\ UNCHANGED <<tableExists, schema, repeated, changed>>
    /\ UNCHANGED <<concVars, extractVars, mainVars, fetchVars>>

\* save_all_transactions_to_db on a table another script created: the first
\* INSERT names columns that table lacks; OperationalError is not caught.
SaveAllTransactionsToDbWrongSchema(variant) ==
    /\ tableExists
    /\ schema # variant
    /\ WrongSchema
    /\ UNCHANGED <<concVars, extractVars, mainVars, fetchVars>>

(***************************************************************************)
(* Two concurrent calls of save_transactions_to_db, each on its own        *)
(* connection to the same database file. Python's sqlite3 opens the        *)
(* implicit transaction before the first INSERT or UPDATE of a call; the   *)
(* SELECTs before it read the committed rows. sqlite allows one writer:    *)
(* the write lock is taken at the first write and held until commit or     *)
(* rollback, and a connection that needs it meanwhile waits. The holder is *)
(* taken to commit within the waiter's timeout (5 s by default), so        *)
(* OperationalError("database is locked") is not among the outcomes.       *)
(***************************************************************************)
Callers == {"A", "B"}
NoCaller == "none"

IdleConc ==
    /\ cpc = [p \in Callers |-> "idle"]
    /\ cbatch = [p \in Callers |-> NoBatch]
    /\ cidx = [p \in Callers |-> 0]
    /\ cfound = [p \in Callers |-> FALSE]
    /\ cpending = [p \in Callers |-> {}]
    /\ cintxn = [p \in Callers |-> FALSE]
    /\ cerr = [p \in Callers |-> "none"]
    /\ lockHolder = NoCaller

\* The rows a caller's connection sees.
View(p) == IF cintxn[p] THEN cpending[p] ELSE table

CurrentRecord(p) == cbatch[p][cidx[p]]

\* After a successful write: on to the next record's SELECT, or to commit.
AfterWrite(p) == IF cidx[p] < Len(cbatch[p]) THEN "select" ELSE "commit"

\* with sqlite3.connect(db_path) as conn: cursor = conn.cursor()
CallSave(p, batch) ==
    /\ cpc[p] = "idle"
    /\ tableExists
    /\ cpc' = [cpc EXCEPT ![p] = "select"]
    /\ cbatch' = [cbatch EXCEPT ![p] = batch]
    /\ cidx' = [cidx EXCEPT ![p] = 1]
    /\ UNCHANGED <<cfound, cpending, cintxn, cerr, lockHolder>>
    /\ UNCHANGED <<storeVars, extractVars, mainVars, fetchVars>>

\* cursor.execute("SELECT id ... WHERE signature = ?"); result = cursor.fetchone()
ExecSelect(p) ==
    /\ cpc[p] = "select"
    /\ cfound' = [cfound EXCEPT ![p] = SelectId(View(p), CurrentRecord(p).signature) # {}]
    /\ cpc' = [cpc EXCEPT ![p] = "write"]
    /\ UNCHANGED <<cbatch, cidx, cpending, cintxn, cerr, lockHolder>>
    /\ UNCHANGED <<storeVars, extractVars, mainVars, fetchVars>>

\* The write lock is free for p: p holds it already, or nobody does.
\* Otherwise p's write waits.
CanWrite(p) == cintxn[p] \/ lockHolder = NoCaller

\* if result: cursor.execute("UPDATE ...")
ExecUpdate(p) ==
    /\ cpc[p] = "write"
    /\ cfound[p]
    /\ CanWrite(p)
    /\ cpending' = [cpending EXCEPT ![p] = UpdateRow(View(p), CurrentRecord(p))]
    /\ cintxn' = [cintxn EXCEPT ![p] = TRUE]
    /\ lockHolder' = p
    /\ cidx' = [cidx EXCEPT ![p] = IF AfterWrite(p) = "select" THEN @ + 1 ELSE @]
    /\ cpc' = [cpc EXCEPT ![p] = AfterWrite(p)]
    /\ UNCHANGED <<cbatch, cfound, cerr>>
    /\ UNCHANGED <<storeVars, extractVars, mainVars, fetchVars>>

\* else: cursor.execute("INSERT ...") and the UNIQUE constraint is satisfied
ExecInsert(p) ==
    /\ cpc[p] = "write"
    /\ ~cfound[p]
    /\ CanWrite(p)
    /\ ~ViolatesUnique(View(p), CurrentRecord(p))
    /\ cpending' = [cpending EXCEPT ![p] = InsertRow(View(p), CurrentRecord(p))]
    /\ cintxn' = [cintxn EXCEPT ![p] = TRUE]
    /\ lockHolder' = p
    /\ cidx' = [cidx EXCEPT ![p] = IF AfterWrite(p) = "select" THEN @ + 1 ELSE @]
    /\ cpc' = [cpc EXCEPT ![p] = AfterWrite(p)]
    /\ UNCHANGED <<cbatch, cfound, cerr>>
    /\ UNCHANGED <<storeVars, extractVars, mainVars, fetchVars>>

\* The exception leaves the with block: the connection rolls back and the
\* call raises.
Raise(p, exception) ==
    /\ cpc' = [cpc EXCEPT ![p] = "failed"]
    /\ cerr' = [cerr EXCEPT ![p] = exception]
    /\ cpending' = [cpending EXCEPT ![p] = {}]
    /\ cintxn' = [cintxn EXCEPT ![p] = FALSE]
    /\ lockHolder' = IF lockHolder = p THEN NoCaller ELSE lockHolder
    /\ UNCHANGED <<cbatch, cidx, cfound>>
    /\ UNCHANGED <<storeVars, extractVars, mainVars, fetchVars>>

\* else: cursor.execute("INSERT ...") of a signature that a row committed
\* since the SELECT already carries: sqlite3.IntegrityError.
ExecInsertFails(p) ==
    /\ cpc[p] = "write"
    /\ ~cfound[p]
    /\ CanWrite(p)
    /\ ViolatesUnique(View(p), CurrentRecord(p))
    /\ Raise(p, "IntegrityError")

\* cursor.execute("UPDATE ...") or cursor.execute("INSERT ...") raises
\* sqlite3.OperationalError (disk I/O error, database or disk is full,
\* database is locked): the write of the current record fails.
ExecWriteFails(p) ==
    /\ cpc[p] = "write"
    /\ Raise(p, "OperationalError")

\* conn.commit(): the caller's rows become the committed rows.
Commit(p) ==
    /\ cpc[p] = "commit"
    /\ table' = cpending[p]
    /\ lastVersion' = [s \in Signatures |->
                         IF s \in SigsOf(cbatch[p]) THEN VersionOf(LastIn(cbatch[p], s))
                         ELSE lastVersion[s]]
    /\ firstId' = [s \in Signatures |->
                     IF firstId[s] = 0 /\ s \in SigsOf(cbatch[p])
                     THEN CHOOSE i \in SelectId(table', s) : TRUE
                     ELSE firstId[s]]
    /\ rewritten' = rewritten \cup {s \in SigsOf(cbatch[p]) : lastVersion[s] # 0}
    /\ repeated' = repeated \cup Repeated(cbatch[p])
    /\ changed' = changed \cup Changed(cbatch[p])
    /\ cpc' = [cpc EXCEPT ![p] = "done"]
    /\ cpending' = [cpending EXCEPT ![p] = {}]
    /\ cintxn' = [cintxn EXCEPT ![p] = FALSE]
    /\ lockHolder' = NoCaller
    /\ UNCHANGED <<tableExists, schema, cbatch, cidx, cfound, cerr>>
    /\ UNCHANGED <<extractVars, mainVars, fetchVars>>

(***************************************************************************)
(* extract_transaction_data. A JSON object (a Python dict) is a record     *)
(* whose DOMAIN is the set of keys present; d['k'] raises KeyError when    *)
(* k is not in it and d.get('k', default) gives the default.               *)
(***************************************************************************)
MaxTransfers == 3

TBALL_MINT_ADDRESS == "CWnzqQVFaD7sKsZyh116viC48G7qLz8pa5WhFpBEg9wM"
WSOL_MINT_ADDRESS == "So11111111111111111111111111111111111111112"
OtherMints == {"OtherMintX", "OtherMintY"}
Mints == {TBALL_MINT_ADDRESS, WSOL_MINT_ADDRESS} \cup OtherMints

None == "None"
ReferralVault == "Jupiter Partner Referral Fee Vault"

Has(d, k) == k \in DOMAIN d
Get(d, k, default) == IF Has(d, k) THEN d[k] ELSE default

\* A float is named by its repr: "0.30000000000000004" is the binary64 value
\* that 0.1 + 0.1 + 0.1 gives; "0" is the int 0 that sum() starts from.
\* float(x): the amounts of the model are the decimal texts "0.1" and "1";
\* any other text raises ValueError.
FloatOf == [a \in {"0.1", "1"} |-> IF a = "0.1" THEN "0.1" ELSE "1.0"]
CanFloat(a) == a \in DOMAIN FloatOf

\* x + a in binary64 (round to nearest, ties to even), as <<x, a, x + a>>,
\* for every x that is the running total of up to three amounts and every
\* amount a.
AdditionTable ==
    {<<"0", "0.1", "0.1">>, <<"0", "1.0", "1.0">>,
     <<"0.1", "0.1", "0.2">>, <<"0.1", "1.0", "1.1">>,
     <<"1.0", "0.1", "1.1">>, <<"1.0", "1.0", "2.0">>,
     <<"0.2", "0.1", "0.30000000000000004">>, <<"0.2", "1.0", "1.2">>,
     <<"1.1", "0.1", "1.2000000000000002">>, <<"1.1", "1.0", "2.1">>,
     <<"2.0", "0.1", "2.1">>, <<"2.0", "1.0", "3.0">>,
     <<"0.30000000000000004", "0.1", "0.4">>, <<"0.30000000000000004", "1.0", "1.3">>,
     <<"1.2", "0.1", "1.3">>, <<"1.2", "1.0", "2.2">>,
     <<"1.2000000000000002", "0.1", "1.3000000000000003">>, <<"1.2000000000000002", "1.0", "2.2">>,
     <<"2.1", "0.1", "2.2">>, <<"2.1", "1.0", "3.1">>,
     <<"3.0", "0.1", "3.1">>, <<"3.0", "1.0", "4.0">>}

FloatAdd(x, a) == (CHOOSE t \in AdditionTable : t[1] = x /\ t[2] = a)[3]

\* 'Jupiter Partner Referral Fee Vault' in str(account)
IsReferralVault(account) == account = ReferralVault

\* Transfers of every mint: 0.1 from account A to account B and 1 from B to
\* A; and a payment to the referral vault.
WellFormedTransfers ==
    {[mint |-> m, tokenAmount |-> "0.1", fromUserAccount |-> "A", toUserAccount |-> "B"] :
        m \in Mints}
    \cup
    {[mint |-> m, tokenAmount |-> "1", fromUserAccount |-> "B", toUserAccount |-> "A"] :
        m \in Mints}
    \cup
    {[mint |-> "OtherMintX", tokenAmount |-> "1",
      fromUserAccount |-> "A", toUserAccount |-> ReferralVault]}

MalformedTransfers ==
    {[mint |-> TBALL_MINT_ADDRESS, tokenAmount |-> "abc",
      fromUserAccount |-> "A", toUserAccount |-> "B"],
     [mint |-> WSOL_MINT_ADDRESS, fromUserAccount |-> "A", toUserAccount |-> "B"],
     [mint |-> "OtherMintX", tokenAmount |-> "1", fromUserAccount |-> "A"],
     [mint |-> TBALL_MINT_ADDRESS, tokenAmount |-> "1", fromUserAccount |-> "A"],
     [tokenAmount |-> "1", fromUserAccount |-> "A", toUserAccount |-> "B"]}

Transfers == WellFormedTransfers \cup MalformedTransfers

\* {}: the default of dict.get in the chain below.
EmptyDict == <<>>

\* tx.get('events', {}).get('swap', {}).get('innerSwaps', [])
InnerSwaps(raw) ==
    Get(Get(Get(raw, "events", EmptyDict), "swap", EmptyDict), "innerSwaps", <<>>)

\* The events of a transaction whose swap event carries the inner swaps sw.
SwapEvents(sw) == [swap |-> [innerSwaps |-> sw]]

\* events.swap.innerSwaps: none, one well-formed hop, one hop whose input
\* lacks its mint.
InnerSwapLists ==
    {<<>>,
     <<[tokenInputs |-> <<[tokenAmount |-> "1", mint |-> WSOL_MINT_ADDRESS]>>,
        tokenOutputs |-> <<[tokenAmount |-> "2", mint |-> TBALL_MINT_ADDRESS]>>]>>,
     <<[tokenInputs |-> <<[tokenAmount |-> "1"]>>]>>}

\* The raw transactions over the given transfer lists: with a fee payer and
\* a swap event of each of the inner-swap lists, or with neither key.
RawTransactions(transferLists, signature) ==
    {[signature |-> signature, feePayer |-> "P", tokenTransfers |-> tl,
      events |-> SwapEvents(sw)] :
        tl \in transferLists, sw \in InnerSwapLists}
    \cup
    {[signature |-> signature, tokenTransfers |-> tl] : tl \in transferLists}

RECURSIVE SumFrom(_, _)
\* The running total of sum(): start + x1, then + x2, ..., in list order.
SumFrom(start, transfers) ==
    IF transfers = <<>> THEN start
    ELSE SumFrom(FloatAdd(start, FloatOf[Head(transfers).tokenAmount]), Tail(transfers))

\* sum(float(t['tokenAmount']) for t in transfers)
SumAmounts(transfers) == SumFrom("0", transfers)

\* The three buckets of the for loop over tx.get('tokenTransfers', []).
TballTransfers(raw) ==
    SelectSeq(Get(raw, "tokenTransfers", <<>>),
              LAMBDA t : Get(t, "mint", None) = TBALL_MINT_ADDRESS)
WsolTransfers(raw) ==
    SelectSeq(Get(raw, "tokenTransfers", <<>>),
              LAMBDA t : /\ Get(t, "mint", None) # TBALL_MINT_ADDRESS
                         /\ Get(t, "mint", None) = WSOL_MINT_ADDRESS)
\* A faulty third bucket, filled by `if mint == WSOL ... else` with the
\* first test an `if` of its own: tracked-mint transfers land in it too.
OtherTransfersWithTracked(raw) ==
    SelectSeq(Get(raw, "tokenTransfers", <<>>),
              LAMBDA t : Get(t, "mint", None) # WSOL_MINT_ADDRESS)

OtherTransfers(raw) ==
    SelectSeq(Get(raw, "tokenTransfers", <<>>),
              LAMBDA t : /\ Get(t, "mint", None) # TBALL_MINT_ADDRESS
                         /\ Get(t, "mint", None) # WSOL_MINT_ADDRESS)

\* The referral-fee loop over other_transfers.
ReferralTransfers(raw) ==
    SelectSeq(OtherTransfers(raw), LAMBDA t : IsReferralVault(t.toUserAccount))

RECURSIVE Hops(_)
\* The intermediate_swaps list built from innerSwaps.
Hops(events) ==
    IF events = <<>> THEN <<>>
    ELSE LET e == Head(events)
             ins == Get(e, "tokenInputs", <<>>)
             outs == Get(e, "tokenOutputs", <<>>)
         IN  [i \in 1..Len(ins) |-> <<"Input", ins[i].tokenAmount, ins[i].mint>>]
             \o [i \in 1..Len(outs) |-> <<"Output", outs[i].tokenAmount, outs[i].mint>>]
             \o Hops(Tail(events))

\* An innerSwaps leg read with ['tokenAmount'] and ['mint'].
LegRaises(leg) == ~Has(leg, "tokenAmount") \/ ~Has(leg, "mint")

\* Some statement of extract_transaction_data raises on this transaction.
ExtractRaises(raw) ==
    LET all == Get(raw, "tokenTransfers", <<>>)
        tball == TballTransfers(raw)
        other == OtherTransfers(raw)
        events == InnerSwaps(raw)
    IN  \/ \E i \in 1..Len(other) : ~Has(other[i], "toUserAccount")
        \/ \E i \in 1..Len(events) :
              \/ \E j \in 1..Len(Get(events[i], "tokenInputs", <<>>)) :
                    LegRaises(events[i].tokenInputs[j])
              \/ \E j \in 1..Len(Get(events[i], "tokenOutputs", <<>>)) :
                    LegRaises(events[i].tokenOutputs[j])
        \/ \E i \in 1..Len(all) :
              \/ ~Has(all[i], "tokenAmount")
              \/ ~CanFloat(all[i].tokenAmount)
        \/ other # <<>> /\ ~Has(other[1], "mint")
        \/ /\ Get(raw, "feePayer", None) = None
           /\ tball # <<>>
           /\ ~Has(tball[1], "fromUserAccount")
        \/ tball # <<>> /\ ~Has(tball[Len(tball)], "toUserAccount")

\* A faulty classification that takes only a WSOL transfer as the other side
\* of a swap (the test of extract_all_transactions in
\* data_collectors/market_data_fetcher.py).
TransactionTypeWsolOnly(tball, wsol, other) ==
    IF tball # <<>> /\ wsol # <<>> THEN "Swap"
    ELSE IF Len(tball) > 1 \/ Len(wsol) > 1 THEN "MultiSwap"
    ELSE "Transfer"

\* if tball_transfers and (wsol_transfers or other_transfers): 'Swap'
\* elif len(tball_transfers) > 1 or len(wsol_transfers) > 1: 'MultiSwap'
\* else: 'Transfer'
TransactionType(tball, wsol, other) ==
    IF tball # <<>> /\ (wsol # <<>> \/ other # <<>>) THEN "Swap"
    ELSE IF Len(tball) > 1 \/ Len(wsol) > 1 THEN "MultiSwap"
    ELSE "Transfer"

\* tx.get('feePayer') or (tball_transfers[0]['fromUserAccount'] if tball_transfers else None)
FromWallet(raw, tball) ==
    IF Get(raw, "feePayer", None) # None THEN raw.feePayer
    ELSE IF tball # <<>> THEN tball[1].fromUserAccount
    ELSE None

\* A faulty to_wallet taken from the first tracked-mint transfer.
ToWalletOfFirst(tball) ==
    IF tball # <<>> THEN Get(tball[1], "toUserAccount", None) ELSE None

\* tball_transfers[-1]['toUserAccount'] if tball_transfers else None
ToWallet(tball) == IF tball # <<>> THEN tball[Len(tball)].toUserAccount ELSE None

\* A faulty other_mint taken from the last transfer of the bucket.
OtherMintOfLast(other) ==
    IF other # <<>> THEN Get(other[Len(other)], "mint", None) ELSE None

\* other_transfers[0]['mint'] if other_transfers else None
OtherMint(other) == IF other # <<>> THEN other[1].mint ELSE None

\* The dict extract_transaction_data returns (the keys the amounts, the
\* type, the wallets and the hops decide).
ExtractedRecord(raw) ==
    LET tball == TballTransfers(raw)
        wsol == WsolTransfers(raw)
        other == OtherTransfers(raw)
        referral == ReferralTransfers(raw)
    IN  [signature |-> Get(raw, "signature", ""),
         transaction_type |-> TransactionType(tball, wsol, other),
         from_wallet |-> FromWallet(raw, tball),
         to_wallet |-> ToWallet(tball),
         tball_amount |-> SumAmounts(tball),
         wsol_amount |-> SumAmounts(wsol),
         other_token_amount |-> SumAmounts(other),
         other_token_mint |-> OtherMint(other),
         referral_fees |-> SumAmounts(referral),
         referral_vault |-> IF referral # <<>>
                            THEN referral[Len(referral)].toUserAccount ELSE None,
         intermediate_swaps |-> Hops(InnerSwaps(raw))]

\* extract_transaction_data(tx): the record, or an exception.
ExtractTransactionData(raw) ==
    IF ExtractRaises(raw)
    THEN [raised |-> TRUE]
    ELSE [raised |-> FALSE, record |-> ExtractedRecord(raw)]

NotExtracted == [raised |-> FALSE]

IdleExtract ==
    /\ tx = <<>>
    /\ extracted = NotExtracted
    /\ xpc = "done"

InitExtract ==
    /\ tx \in RawTransactions(SeqsUpTo(Transfers, MaxTransfers), 1)
    /\ extracted = NotExtracted
    /\ xpc = "start"

\* One call of extract_transaction_data(tx).
Extract ==
    /\ xpc = "start"
    /\ extracted' = ExtractTransactionData(tx)
    /\ xpc' = "done"
    /\ UNCHANGED tx
    /\ UNCHANGED <<storeVars, concVars, mainVars, fetchVars>>

(***************************************************************************)
(* The normalization step of main: the two list comprehensions over the    *)
(* fetched transactions, with safe_extract_transaction_data.               *)
(***************************************************************************)
MaxFetched == 3

\* The truth value of a JSON object in `if tx`: an empty dict is falsy.
Truthy(raw) == DOMAIN raw # {}

\* safe_extract_transaction_data(tx): the record, or None after printing the
\* error with tx.get('signature', 'Unknown').
SafeExtractTransactionData(raw) ==
    LET r == ExtractTransactionData(raw)
    IN  IF r.raised
        THEN [isNone |-> TRUE, printed |-> <<Get(raw, "signature", "Unknown")>>]
        ELSE [isNone |-> FALSE, record |-> r.record, printed |-> <<>>]

RECURSIVE NormalizeUnguarded(_)
\* A faulty normalization without the try/except: the first exception ends
\* the comprehension and nothing is kept.
NormalizeUnguarded(raws) ==
    IF raws = <<>> THEN [records |-> <<>>, printed |-> <<>>, aborted |-> FALSE]
    ELSE IF ~Truthy(Head(raws)) THEN NormalizeUnguarded(Tail(raws))
    ELSE LET r == ExtractTransactionData(Head(raws))
             rest == NormalizeUnguarded(Tail(raws))
         IN  IF r.raised \/ rest.aborted
             THEN [records |-> <<>>, printed |-> <<>>, aborted |-> TRUE]
             ELSE [records |-> <<r.record>> \o rest.records, printed |-> <<>>,
                   aborted |-> FALSE]

RECURSIVE Normalize(_)
\* all_transactions = [safe_extract_transaction_data(tx) for tx in ... if tx]
\* all_transactions = [tx for tx in all_transactions if tx is not None]
\* together with what the first comprehension printed, in order.
Normalize(raws) ==
    IF raws = <<>> THEN [records |-> <<>>, printed |-> <<>>]
    ELSE LET rest == Normalize(Tail(raws))
         IN  IF ~Truthy(Head(raws)) THEN rest
             ELSE LET r == SafeExtractTransactionData(Head(raws))
                  IN  [records |-> IF r.isNone THEN rest.records
                                   ELSE <<r.record>> \o rest.records,
                       printed |-> r.printed \o rest.printed]

Transfer(m, a) ==
    [mint |-> m, tokenAmount |-> a, fromUserAccount |-> "A", toUserAccount |-> "B"]

\* What the fetch can put at position `signature` of the fetched list: two
\* transactions that normalize, three that are malformed (an amount that is
\* no number, a transfer without amount, an inner hop without mint) and an
\* empty object.
FetchedAt(signature) ==
    {[signature |-> signature, feePayer |-> "P", events |-> SwapEvents(<<>>),
      tokenTransfers |-> <<Transfer(TBALL_MINT_ADDRESS, "1"), Transfer(WSOL_MINT_ADDRESS, "0.1")>>],
     [signature |-> signature,
      tokenTransfers |-> <<Transfer(TBALL_MINT_ADDRESS, "0.1")>>],
     [signature |-> signature, feePayer |-> "P", events |-> SwapEvents(<<>>),
      tokenTransfers |-> <<Transfer(TBALL_MINT_ADDRESS, "abc")>>],
     [signature |-> signature, feePayer |-> "P", events |-> SwapEvents(<<>>),
      tokenTransfers |-> <<Transfer(TBALL_MINT_ADDRESS, "1"),
                           [mint |-> WSOL_MINT_ADDRESS, fromUserAccount |-> "A",
                            toUserAccount |-> "B"]>>],
     [signature |-> signature, feePayer |-> "P",
      events |-> SwapEvents(<<[tokenInputs |-> <<[tokenAmount |-> "1"]>>]>>),
      tokenTransfers |-> <<Transfer(TBALL_MINT_ADDRESS, "1")>>],
     <<>>}

RECURSIVE FetchedLists(_)
\* The lists of n fetched transactions; the i-th carries signature i.
FetchedLists(n) ==
    IF n = 0 THEN {<<>>}
    ELSE {Append(l, t) : l \in FetchedLists(n - 1), t \in FetchedAt(n)}

IdleMain ==
    /\ tball_transactions = <<>>
    /\ all_transactions = <<>>
    /\ reported = <<>>
    /\ mpc = "normalized"

InitMain ==
    /\ tball_transactions \in UNION {FetchedLists(n) : n \in 1..MaxFetched}
    /\ all_transactions = <<>>
    /\ reported = <<>>
    /\ mpc = "fetched"

\* main, from `if tball_transactions:` to the second list comprehension.
MainNormalize ==
    /\ mpc = "fetched"
    /\ tball_transactions # <<>>
    /\ all_transactions' = Normalize(tball_transactions).records
    /\ reported' = Normalize(tball_transactions).printed
    /\ mpc' = "normalized"
    /\ UNCHANGED tball_transactions
    /\ UNCHANGED <<storeVars, concVars, extractVars, fetchVars>>

(***************************************************************************)
(* The retry loops. One run of one function; every loop iteration issues   *)
(* one request and the collaborator answers 200 with some data, 429, or    *)
(* any other status. time.sleep is not modelled.                           *)
(***************************************************************************)
MAX_RETRIES == 5
MaxLimit == 3
MaxPage == 2
MaxSigList == 3
MaxBatchSize == 2
MaxTarget == 12

OtherStatus == 500

ListResult(items) == [tag |-> "list", val |-> items]
NoneResult == [tag |-> "None", val |-> <<>>]
Pending == [tag |-> "pending", val |-> <<>>]

\* A faulty "limit" that is the page size whatever was collected already.
RequestedLimitPageSizeOnly == IF fvariant = "modules" THEN 10 ELSE limit

\* "limit": min(10, limit - len(signatures)) in modules/market_data_fetcher.py,
\* min(limit, limit - len(signatures)) in data_collectors/market_data_fetcher.py
RequestedLimit ==
    IF fvariant = "modules"
    THEN Min(10, limit - Len(signatures))
    ELSE Min(limit, limit - Len(signatures))

\* batch = signatures[i:i + batch_size]
Batch == SubSeq(signatures, bi + 1, Min(bi + batch_size, Len(signatures)))

\* What a request carries: the "limit" it asks for (the limit of the url in
\* get_tball_transactions; 0 in parse_transactions_in_batches) and the
\* "transactions" of its body (parse_transactions_in_batches only).
AskedLimit ==
    IF fop = "get_tball_signatures" THEN RequestedLimit
    ELSE IF fop = "get_tball_transactions" THEN limit
    ELSE 0
AskedTransactions == IF fop = "parse_transactions_in_batches" THEN Batch ELSE <<>>

\* One request and its answer: the batch offset it was for (0 outside
\* parse_transactions_in_batches), what it asked for (with the "before" of
\* get_tball_signatures, 0 for None), the status, and the data of a 200.
Logged(status, data) ==
    [batch |-> bi, asked |-> AskedLimit, before |-> before_signature,
     transactions |-> AskedTransactions, status |-> status, data |-> data]

Last(seq) == seq[Len(seq)]

IdleFetch ==
    /\ fop = "none"
    /\ fvariant = "modules"
    /\ fpc = "done"
    /\ limit = 0
    /\ signatures = <<>>
    /\ before_signature = 0
    /\ batch_size = 0
    /\ bi = 0
    /\ parsed_transactions = <<>>
    /\ retries = 0
    /\ flog = <<>>
    /\ fresult = Pending

\* The state on entry of one of the three functions, with its arguments.
InitFetch ==
    /\ fpc = "loop"
    /\ before_signature = 0
    /\ bi = 0
    /\ parsed_transactions = <<>>
    /\ retries = 0
    /\ flog = <<>>
    /\ fresult = Pending
    /\ \/ /\ fop = "get_tball_transactions"
          /\ fvariant = "data_collectors"
          /\ limit \in 1..MaxLimit
          /\ signatures = <<>>
          /\ batch_size = 0
       \/ /\ fop = "get_tball_signatures"
          /\ fvariant \in {"modules", "data_collectors"}
          /\ limit \in 1..MaxLimit
          /\ signatures = <<>>
          /\ batch_size = 0
       \/ /\ fop = "parse_transactions_in_batches"
          /\ fvariant \in {"modules", "data_collectors"}
          /\ limit = 0
          /\ signatures \in {[i \in 1..n |-> i] : n \in 1..MaxSigList}
          /\ batch_size \in 1..MaxBatchSize

\* The state on entry of get_tball_signatures, with limits on both sides of
\* the page size of modules/market_data_fetcher.py.
InitPaginate ==
    /\ fop = "get_tball_signatures"
    /\ fvariant \in {"modules", "data_collectors"}
    /\ fpc = "loop"
    /\ limit \in 1..MaxTarget
    /\ signatures = <<>>
    /\ before_signature = 0
    /\ batch_size = 0
    /\ bi = 0
    /\ parsed_transactions = <<>>
    /\ retries = 0
    /\ flog = <<>>
    /\ fresult = Pending

\* ---- get_tball_transactions (transaction_data_collector.py) ----

GT_Looping ==
    /\ fop = "get_tball_transactions"
    /\ fpc = "loop"
    /\ retries < MAX_RETRIES

\* status 200: return transactions[:limit]
GT_Ok(transactions) ==
    /\ GT_Looping
    /\ flog' = Append(flog, Logged(200, transactions))
    /\ fresult' = ListResult(SubSeq(transactions, 1, Min(limit, Len(transactions))))
    /\ fpc' = "done"
    /\ UNCHANGED <<fop, fvariant, limit, signatures, before_signature, batch_size, bi,
                   parsed_transactions, retries>>
    /\ UNCHANGED <<storeVars, concVars, extractVars, mainVars>>

\* status 429: retries += 1; sleep
GT_RateLimited ==
    /\ GT_Looping
    /\ flog' = Append(flog, Logged(429, <<>>))
    /\ retries' = retries + 1
    /\ UNCHANGED <<fop, fvariant, fpc, limit, signatures, before_signature, batch_size, bi,
                   parsed_transactions, fresult>>
    /\ UNCHANGED <<storeVars, concVars, extractVars, mainVars>>

\* any other status: break, then return []
GT_Error ==
    /\ GT_Looping
    /\ flog' = Append(flog, Logged(OtherStatus, <<>>))
    /\ fresult' = ListResult(<<>>)
    /\ fpc' = "done"
    /\ UNCHANGED <<fop, fvariant, limit, signatures, before_signature, batch_size, bi,
                   parsed_transactions, retries>>
    /\ UNCHANGED <<storeVars, concVars, extractVars, mainVars>>

\* the while condition fails: return []
GT_Exhausted ==
    /\ fop = "get_tball_transactions"
    /\ fpc = "loop"
    /\ ~(retries < MAX_RETRIES)
    /\ fresult' = ListResult(<<>>)
    /\ fpc' = "done"
    /\ UNCHANGED <<fop, fvariant, limit, signatures, before_signature, batch_size, bi,
                   parsed_transactions, retries, flog>>
    /\ UNCHANGED <<storeVars, concVars, extractVars, mainVars>>

\* ---- get_tball_signatures (both market_data_fetcher.py files) ----

GS_Looping ==
    /\ fop = "get_tball_signatures"
    /\ fpc = "loop"
    /\ Len(signatures) < limit
    /\ retries < MAX_RETRIES

\* The non-empty pages the node may answer a request with: at most the
\* requested number of entries.
Pages == SeqsUpTo(Signatures, Min(MaxPage, RequestedLimit)) \ {<<>>}

\* The non-empty pages of a node that honours the cursor: the signatures of
\* the address are numbered from the newest, the ones before the cursor c
\* are c + 1, c + 2, ...; a page holds one of them or as many as were asked
\* for.
NodePages == {[i \in 1..n |-> before_signature + i] : n \in {1, RequestedLimit}}

\* A faulty page branch that takes the first signature of the page for the
\* cursor (result[0] for result[-1]).
GS_PageCursorFirst(result) ==
    /\ GS_Looping
    /\ flog' = Append(flog, Logged(200, result))
    /\ signatures' = signatures \o result
    /\ before_signature' = Head(result)
    /\ UNCHANGED <<fop, fvariant, fpc, limit, batch_size, bi, parsed_transactions,
                   retries, fresult>>
    /\ UNCHANGED <<storeVars, concVars, extractVars, mainVars>>

\* A faulty page branch that starts the attempt count afresh after every
\* successful page (retries = 0 in the 200 branch).
GS_PageResettingRetries(result) ==
    /\ GS_Looping
    /\ flog' = Append(flog, Logged(200, result))
    /\ signatures' = signatures \o result
    /\ before_signature' = Last(result)
    /\ retries' = 0
    /\ UNCHANGED <<fop, fvariant, fpc, limit, batch_size, bi, parsed_transactions, fresult>>
    /\ UNCHANGED <<storeVars, concVars, extractVars, mainVars>>

\* status 200 with a non-empty result: extend, move the cursor
GS_Page(result) ==
    /\ GS_Looping
    /\ flog' = Append(flog, Logged(200, result))
    /\ signatures' = signatures \o result
    /\ before_signature' = Last(result)
    /\ UNCHANGED <<fop, fvariant, fpc, limit, batch_size, bi, parsed_transactions,
                   retries, fresult>>
    /\ UNCHANGED <<storeVars, concVars, extractVars, mainVars>>

\* status 200 with an empty result: break, then return signatures
GS_EmptyPage ==
    /\ GS_Looping
    /\ flog' = Append(flog, Logged(200, <<>>))
    /\ fresult' = ListResult(signatures)
    /\ fpc' = "done"
    /\ UNCHANGED <<fop, fvariant, limit, signatures, before_signature, batch_size, bi,
                   parsed_transactions, retries>>
    /\ UNCHANGED <<storeVars, concVars, extractVars, mainVars>>

\* A faulty rate-limit branch that sleeps and asks again without counting the
\* attempt.
GS_RateLimitedUncounted ==
    /\ GS_Looping
    /\ flog' = Append(flog, Logged(429, <<>>))
    /\ UNCHANGED <<fop, fvariant, fpc, limit, signatures, before_signature, batch_size, bi,
                   parsed_transactions, retries, fresult>>
    /\ UNCHANGED <<storeVars, concVars, extractVars, mainVars>>

\* status 429: retries += 1; sleep
GS_RateLimited ==
    /\ GS_Looping
    /\ flog' = Append(flog, Logged(429, <<>>))
    /\ retries' = retries + 1
    /\ UNCHANGED <<fop, fvariant, fpc, limit, signatures, before_signature, batch_size, bi,
                   parsed_transactions, fresult>>
    /\ UNCHANGED <<storeVars, concVars, extractVars, mainVars>>

\* A faulty error branch without the break: the loop goes on to the next
\* request.
GS_ErrorWithoutBreak ==
    /\ GS_Looping
    /\ flog' = Append(flog, Logged(OtherStatus, <<>>))
    /\ UNCHANGED <<fop, fvariant, fpc, limit, signatures, before_signature, batch_size, bi,
                   parsed_transactions, retries, fresult>>
    /\ UNCHANGED <<storeVars, concVars, extractVars, mainVars>>

\* A faulty error branch that gives up what was collected (the `return []`
\* of get_tball_transactions).
GS_ErrorReturnsEmpty ==
    /\ GS_Looping
    /\ flog' = Append(flog, Logged(OtherStatus, <<>>))
    /\ fresult' = ListResult(<<>>)
    /\ fpc' = "done"
    /\ UNCHANGED <<fop, fvariant, limit, signatures, before_signature, batch_size, bi,
                   parsed_transactions, retries>>
    /\ UNCHANGED <<storeVars, concVars, extractVars, mainVars>>

\* any other status: break, then return signatures
GS_Error ==
    /\ GS_Looping
    /\ flog' = Append(flog, Logged(OtherStatus, <<>>))
    /\ fresult' = ListResult(signatures)
    /\ fpc' = "done"
    /\ UNCHANGED <<fop, fvariant, limit, signatures, before_signature, batch_size, bi,
                   parsed_transactions, retries>>
    /\ UNCHANGED <<storeVars, concVars, extractVars, mainVars>>

\* the while condition fails: return signatures
GS_Return ==
    /\ fop = "get_tball_signatures"
    /\ fpc = "loop"
    /\ ~(Len(signatures) < limit /\ retries < MAX_RETRIES)
    /\ fresult' = ListResult(signatures)
    /\ fpc' = "done"
    /\ UNCHANGED <<fop, fvariant, limit, signatures, before_signature, batch_size, bi,
                   parsed_transactions, retries, flog>>
    /\ UNCHANGED <<storeVars, concVars, extractVars, mainVars>>

\* ---- parse_transactions_in_batches (both market_data_fetcher.py files) ----

\* response.json(): one parsed transaction per requested signature, standing
\* here by its signature.
ParsedBatch == Batch

PT_Looping ==
    /\ fop = "parse_transactions_in_batches"
    /\ fpc = "loop"
    /\ retries < MAX_RETRIES

\* A faulty loop that stops after the first batch (what
\* data_collectors/market_data_fetcher.py does with signatures[:batch_size]).
FirstBatchOnly == FALSE

\* The for loop of modules/market_data_fetcher.py has another batch to go;
\* data_collectors/market_data_fetcher.py requests signatures[:batch_size] only.
HasNextBatch == fvariant = "modules" /\ bi + batch_size < Len(signatures)

\* A faulty loop with `retries = 0` before the for loop: the count of one
\* batch is carried into the next.
LeaveBatchKeepingCount(parsed) ==
    IF HasNextBatch
    THEN /\ bi' = bi + batch_size
         /\ UNCHANGED <<retries, fpc, fresult>>
    ELSE /\ fpc' = "done"
         /\ fresult' = ListResult(parsed)
         /\ UNCHANGED <<bi, retries>>

\* The while loop of a batch is left for the next iteration of the for loop
\* (retries = 0 again), or for `return parsed_transactions`.
LeaveBatch(parsed) ==
    IF HasNextBatch
    THEN /\ bi' = bi + batch_size
         /\ retries' = 0
         /\ UNCHANGED <<fpc, fresult>>
    ELSE /\ fpc' = "done"
         /\ fresult' = ListResult(parsed)
         /\ UNCHANGED <<bi, retries>>

\* status 200: parsed_transactions.extend(response.json()); break
PT_Ok ==
    /\ PT_Looping
    /\ flog' = Append(flog, Logged(200, ParsedBatch))
    /\ parsed_transactions' = parsed_transactions \o ParsedBatch
    /\ LeaveBatch(parsed_transactions')
    /\ UNCHANGED <<fop, fvariant, limit, signatures, before_signature, batch_size>>
    /\ UNCHANGED <<storeVars, concVars, extractVars, mainVars>>

\* status 429: retries += 1; sleep
PT_RateLimited ==
    /\ PT_Looping
    /\ flog' = Append(flog, Logged(429, <<>>))
    /\ retries' = retries + 1
    /\ UNCHANGED <<fop, fvariant, fpc, limit, signatures, before_signature, batch_size, bi,
                   parsed_transactions, fresult>>
    /\ UNCHANGED <<storeVars, concVars, extractVars, mainVars>>

\* any other status: return None
PT_Error ==
    /\ PT_Looping
    /\ flog' = Append(flog, Logged(OtherStatus, <<>>))
    /\ fresult' = NoneResult
    /\ fpc' = "done"
    /\ UNCHANGED <<fop, fvariant, limit, signatures, before_signature, batch_size, bi,
                   parsed_transactions, retries>>
    /\ UNCHANGED <<storeVars, concVars, extractVars, mainVars>>

\* the while condition fails after MAX_RETRIES rate-limit answers: the loop
\* of this batch ends without break
PT_RetriesExhausted ==
    /\ fop = "parse_transactions_in_batches"
    /\ fpc = "loop"
    /\ ~(retries < MAX_RETRIES)
    /\ LeaveBatch(parsed_transactions)
    /\ UNCHANGED <<fop, fvariant, limit, signatures, before_signature, batch_size,
                   parsed_transactions, flog>>
    /\ UNCHANGED <<storeVars, concVars, extractVars, mainVars>>

(***************************************************************************)
(* Specifications.                                                         *)
(***************************************************************************)

\* Sequential calls of setup_database and save_transactions_to_db.
NextStore ==
    \/ SetupDatabase
    \/ \E batch \in Batches : SaveTransactionsToDb(batch)

StartStore == InitStore /\ IdleConc /\ IdleExtract /\ IdleMain /\ IdleFetch

SpecStore == StartStore /\ [][NextStore]_vars

\* The table on entry of the two concurrent calls: created, and empty or
\* holding the row of an earlier save of signature 1.
InitConc ==
    /\ tableExists = TRUE
    /\ schema = Collector
    /\ \/ /\ table = {}
          /\ lastVersion = [s \in Signatures |-> 0]
          /\ firstId = [s \in Signatures |-> 0]
       \/ /\ table = SaveLoop({}, <<TxRecord(1, 1)>>)
          /\ lastVersion = [s \in Signatures |-> IF s = 1 THEN 1 ELSE 0]
          /\ firstId = [s \in Signatures |-> IF s = 1 THEN 1 ELSE 0]
    /\ rewritten = {}
    /\ repeated = {}
    /\ changed = {}
    /\ IdleConc

NextConc ==
    \E p \in Callers :
        \/ \E batch \in Batches : CallSave(p, batch)
        \/ ExecSelect(p)
        \/ ExecUpdate(p)
        \/ ExecInsert(p)
        \/ ExecInsertFails(p)
        \/ Commit(p)

StartConc == InitConc /\ IdleExtract /\ IdleMain /\ IdleFetch

SpecConc == StartConc /\ [][NextConc]_vars

\* Runs of the three scripts, one after the other, on the same database
\* file: each creates the table if there is none and saves lists of records.
NextDb ==
    \/ SetupDatabase
    \/ \E batch \in Batches : SaveTransactionsToDb(batch)
    \/ SaveTransactionsToDbWrongSchema
    \/ \E variant \in Fetchers : CreateFetcherTable(variant)
    \/ \E variant \in Fetchers : \E batch \in FetcherBatches(variant) :
          SaveAllTransactionsToDb(variant, batch)
    \/ \E variant \in Fetchers : SaveAllTransactionsToDbWrongSchema(variant)

StartDb == InitStore /\ IdleConc /\ IdleExtract /\ IdleMain /\ IdleFetch

SpecDb == StartDb /\ [][NextDb]_vars

\* One call of save_transactions_to_db, statement by statement, on a table
\* that is empty or holds the row of an earlier save of signature 1; each
\* write may fail.
NextSave ==
    \/ \E batch \in Batches : CallSave("A", batch)
    \/ ExecSelect("A")
    \/ ExecUpdate("A")
    \/ ExecInsert("A")
    \/ ExecWriteFails("A")
    \/ Commit("A")

StartSave == InitConc /\ IdleExtract /\ IdleMain /\ IdleFetch

SpecSave == StartSave /\ [][NextSave]_vars

NextExtract == Extract

StartExtract == InitStore /\ IdleConc /\ InitExtract /\ IdleMain /\ IdleFetch

SpecExtract == StartExtract /\ [][NextExtract]_vars

NextMain == MainNormalize

StartMain == InitStore /\ IdleConc /\ IdleExtract /\ InitMain /\ IdleFetch

SpecMain == StartMain /\ [][NextMain]_vars

NextFetch ==
    \/ \E transactions \in SeqsUpTo(Signatures, MaxPage) : GT_Ok(transactions)
    \/ GT_RateLimited
    \/ GT_Error
    \/ GT_Exhausted
    \/ \E result \in Pages : GS_Page(result)
    \/ GS_EmptyPage
    \/ GS_RateLimited
    \/ GS_Error
    \/ GS_Return
    \/ PT_Ok
    \/ PT_RateLimited
    \/ PT_Error
    \/ PT_RetriesExhausted

StartFetch == InitStore /\ IdleConc /\ IdleExtract /\ IdleMain /\ InitFetch

SpecFetch == StartFetch /\ [][NextFetch]_vars

\* The three functions when every request returns: a function that can take
\* a step (send its request and handle the answer, or leave its loop) takes
\* one. Nothing else runs in the process, and time.sleep returns.
SpecFetchLive == StartFetch /\ [][NextFetch]_vars /\ WF_vars(NextFetch)

\* get_tball_signatures against a node that honours the cursor.
NextPaginate ==
    \/ \E result \in NodePages : GS_Page(result)
    \/ GS_EmptyPage
    \/ GS_RateLimited
    \/ GS_Error
    \/ GS_Return

StartPaginate == InitStore /\ IdleConc /\ IdleExtract /\ IdleMain /\ InitPaginate

SpecPaginate == StartPaginate /\ [][NextPaginate]_vars

(***************************************************************************)
(* Properties of the transactions table.                                   *)
(***************************************************************************)

RowsOf(s) == {r \in table : r.signature = s}

\* C1: after any sequence of save_transactions_to_db calls the table holds
\* exactly one row for every signature ever written (none for the others)
\* and never two rows with the same signature.
C1_OneRowPerSignature ==
    /\ \A s \in Signatures :
          Cardinality(RowsOf(s)) = IF lastVersion[s] # 0 THEN 1 ELSE 0
    /\ \A r1 \in table : \A r2 \in table : r1.signature = r2.signature => r1 = r2

\* A signature that came twice in one batch and again in a later call, next
\* to the row of another signature.
C1_Witness ==
    \E s \in repeated \cap rewritten : \E o \in Signatures :
        o # s /\ RowsOf(s) # {} /\ RowsOf(o) # {}

\* The columns of a row other than id.
Columns(row) == [k \in DOMAIN row \ {"id"} |-> row[k]]

\* C2: every stored row carries, in all its columns, the record most
\* recently written for its signature, under the id and signature it was
\* inserted with; writing a record a second time changes nothing.
C2_UpsertLatestAndIdempotent ==
    /\ \A r \in table :
          /\ lastVersion[r.signature] # 0
          /\ Columns(r) = TxRecord(r.signature, lastVersion[r.signature])
          /\ r.id = firstId[r.signature]
    /\ \A rec \in TxRecords :
          SaveRecord(SaveRecord(table, rec), rec) = SaveRecord(table, rec)

\* A stored row that a later call overwrote with another version of its
\* record.
C2_Witness ==
    \E s \in changed : \E r \in table :
        r.signature = s /\ r.id = firstId[s] /\ r.fee = TxRecord(s, lastVersion[s]).fee

\* C10: under every interleaving of two concurrent save_transactions_to_db
\* calls both calls complete without error, and the table ends with one row
\* per signature.
C10_ConcurrentSavesSucceed ==
    /\ \A p \in Callers : cpc[p] # "failed"
    /\ (\A p \in Callers : cpc[p] = "done") =>
          \A r1 \in table : \A r2 \in table : r1.signature = r2.signature => r1 = r2

\* The records of a call's batch written before the record at cidx.
WrittenBefore(p) == SubSeq(cbatch[p], 1, cidx[p] - 1)

\* C11: when the write of the k-th record of a batch fails, the call raises
\* and the records 1..k-1 of the same call, already written, are stored:
\* every one of their signatures has a row holding the last record written
\* for it.
C11_WrittenRecordsSurvive ==
    \A p \in Callers :
        cpc[p] = "failed" =>
            /\ cerr[p] # "none"
            /\ \A s \in SigsOf(WrittenBefore(p)) :
                  \E r \in table : Columns(r) = LastIn(WrittenBefore(p), s)

\* The signature of a row, under the column name of its table.
SigOf(row) == IF Has(row, "signature") THEN row.signature ELSE row.transaction_signature

StoredSignatures(rows) == {SigOf(r) : r \in rows}

\* C19: no operation of the three scripts (the saves, the table creation
\* run again) deletes a row or changes the signature of a row: every row is
\* there in the next state, under its id and with its signature, so the set
\* of stored signatures only grows.
C19_StoredStaysStored ==
    [][/\ \A r \in table : \E q \in table' : q.id = r.id /\ SigOf(q) = SigOf(r)
       /\ StoredSignatures(table) \subseteq StoredSignatures(table')]_vars

\* Every signature stored, one of them in a row that a later save replaced
\* with another version of its record.
C19_Witness ==
    /\ schema = Collector
    /\ StoredSignatures(table) = Signatures
    /\ \E s \in changed : \E r \in table : r.signature = s /\ r.id = firstId[s]

\* The row a fetcher table would hold for signature s had every save of the
\* signature replaced the columns of its row: the columns of the record
\* saved last.
RowOfLastSaved(id, s) == FetcherRow(schema, id, FetcherRecord(schema, s, lastVersion[s]))

\* C20: in a table of one of the market_data_fetcher scripts, after any
\* sequence of save_all_transactions_to_db calls, every signature that was
\* saved has exactly one row, and that row carries the field values of the
\* record saved last under the signature (a later save of a stored signature
\* updates the row, adds no second row, and does not keep the other records
\* of its list from being written).
C20_ReingestUpdatesRow ==
    schema \in Fetchers =>
        /\ \A r \in table : r = RowOfLastSaved(r.id, r.transaction_signature)
        /\ \A r, q \in table : r.transaction_signature = q.transaction_signature => r = q
        /\ \A s \in Signatures : lastVersion[s] # 0 => StoredSignature(table, s)

\* The signatures of the lists given to the calls in progress or ended.
SignaturesGiven(batches) == UNION {SigsOf(batches[p]) : p \in Callers}

\* The rows whose signature is in none of the lists given.
RowsOutside(rows, batches) == {r \in rows : r.signature \notin SignaturesGiven(batches)}

\* C26: a call of save_transactions_to_db changes only rows whose signature
\* is in the list it was given: at every step of the call, whether it
\* inserts, updates, commits or fails, the stored rows of other signatures
\* are the same rows with the same fields, and so are those the call's own
\* connection sees.
C26_SaveFrame ==
    [][/\ RowsOutside(table', cbatch') = RowsOutside(table, cbatch')
       /\ \A p \in Callers :
             cintxn'[p] => RowsOutside(cpending'[p], cbatch') = RowsOutside(table, cbatch')]_vars

\* A call that inserted signature 2 and then updated it, next to the row
\* of signature 1 stored before the call.
C26_Witness ==
    /\ cpc["A"] = "done"
    /\ Len(cbatch["A"]) = 2
    /\ SigsOf(cbatch["A"]) = {2}
    /\ cbatch["A"][1] # cbatch["A"][2]
    /\ \E r \in table : r.signature = 2 /\ Columns(r) = cbatch["A"][2]
    /\ \E r \in table : r.signature = 1 /\ r.id = 1 /\ Columns(r) = TxRecord(1, 1)

(***************************************************************************)
(* Properties of extract_transaction_data and of the normalization step.   *)
(***************************************************************************)

\* The number of transfers of the transaction whose mint satisfies Test.
CountMint(raw, Test(_)) ==
    Cardinality({i \in 1..Len(raw.tokenTransfers) :
                    Test(Get(raw.tokenTransfers[i], "mint", None))})

NumTracked(raw) == CountMint(raw, LAMBDA m : m = TBALL_MINT_ADDRESS)
NumReference(raw) == CountMint(raw, LAMBDA m : m = WSOL_MINT_ADDRESS)
NumOther(raw) == CountMint(raw, LAMBDA m : m \notin {TBALL_MINT_ADDRESS, WSOL_MINT_ADDRESS})

\* C3: transaction_type is Swap if there is at least one tracked-mint
\* transfer and at least one reference-mint or other-mint transfer;
\* otherwise MultiSwap if there is more than one tracked-mint transfer or
\* more than one reference-mint transfer; otherwise Transfer.
C3_Classification ==
    (xpc = "done" /\ ~extracted.raised) =>
        extracted.record.transaction_type =
            IF NumTracked(tx) >= 1 /\ (NumReference(tx) >= 1 \/ NumOther(tx) >= 1)
            THEN "Swap"
            ELSE IF NumTracked(tx) > 1 \/ NumReference(tx) > 1
            THEN "MultiSwap"
            ELSE "Transfer"

\* A transaction with several tracked-mint transfers and one other-mint
\* transfer, where both tests apply and Swap wins.
C3_Witness ==
    /\ xpc = "done"
    /\ ~extracted.raised
    /\ NumTracked(tx) > 1
    /\ NumOther(tx) = 1
    /\ NumReference(tx) = 0
    /\ extracted.record.transaction_type = "Swap"

\* The decimal value of an amount, in tenths.
AmountTenths == [a \in {"0.1", "1.0"} |-> IF a = "0.1" THEN 1 ELSE 10]

RECURSIVE Tenths(_)
\* The decimal value of a running total, rounded to tenths: that of the
\* amounts it was added up from.
Tenths(x) ==
    IF x = "0" THEN 0
    ELSE LET t == CHOOSE u \in AdditionTable : u[3] = x
         IN  Tenths(t[1]) + AmountTenths[t[2]]

\* The transfers of the transaction whose mint is in M (mint None: absent).
TransfersOf(raw, M) ==
    SelectSeq(raw.tokenTransfers, LAMBDA t : Get(t, "mint", None) \in M)

RECURSIVE DecimalSum(_)
\* The exact sum of the amounts of some transfers, in tenths.
DecimalSum(transfers) ==
    IF transfers = <<>> THEN 0
    ELSE AmountTenths[FloatOf[Head(transfers).tokenAmount]] + DecimalSum(Tail(transfers))

RemainingMints == (Mints \cup {None}) \ {TBALL_MINT_ADDRESS, WSOL_MINT_ADDRESS}

\* C15: tball_amount, wsol_amount and other_token_amount are the sums, in
\* list order, of the amounts of the tracked-mint, reference-mint and
\* remaining transfers; each is the number zero when its bucket is empty and
\* is not negative; the three together count every transfer exactly once.
C15_AmountSums ==
    (xpc = "done" /\ ~extracted.raised) =>
        LET rec == extracted.record
            tracked == TransfersOf(tx, {TBALL_MINT_ADDRESS})
            reference == TransfersOf(tx, {WSOL_MINT_ADDRESS})
            remaining == TransfersOf(tx, RemainingMints)
        IN  /\ rec.tball_amount = SumAmounts(tracked)
            /\ rec.wsol_amount = SumAmounts(reference)
            /\ rec.other_token_amount = SumAmounts(remaining)
            /\ tracked = <<>> => rec.tball_amount = "0"
            /\ reference = <<>> => rec.wsol_amount = "0"
            /\ remaining = <<>> => rec.other_token_amount = "0"
            /\ Tenths(rec.tball_amount) = DecimalSum(tracked)
            /\ Tenths(rec.wsol_amount) = DecimalSum(reference)
            /\ Tenths(rec.other_token_amount) = DecimalSum(remaining)
            /\ Tenths(rec.tball_amount) >= 0
            /\ Tenths(rec.wsol_amount) >= 0
            /\ Tenths(rec.other_token_amount) >= 0
            /\ Tenths(rec.tball_amount) + Tenths(rec.wsol_amount)
                  + Tenths(rec.other_token_amount) = DecimalSum(tx.tokenTransfers)

\* Two tracked-mint transfers and one of another mint, none of the
\* reference mint: 1.1 tracked, zero reference, 0.1 other.
C15_Witness ==
    /\ xpc = "done"
    /\ ~extracted.raised
    /\ Len(tx.tokenTransfers) = 3
    /\ Tenths(extracted.record.tball_amount) = 11
    /\ extracted.record.wsol_amount = "0"
    /\ extracted.record.other_token_amount = "0.1"

\* The orders of n transfers: the permutations of 1..n.
Orders(n) ==
    {f \in [1..n -> 1..n] : \A i \in 1..n : \A j \in 1..n : f[i] = f[j] => i = j}

\* The transaction with its transfers in the order f.
Permuted(raw, f) ==
    [raw EXCEPT !.tokenTransfers = [i \in 1..Len(raw.tokenTransfers) |->
                                       raw.tokenTransfers[f[i]]]]

\* C16: for a list of well-formed transfers and every permutation of it,
\* extract_transaction_data gives the same transaction_type and the same
\* tball_amount, wsol_amount and other_token_amount; the type is Swap only
\* if there is a tracked-mint transfer and a non-tracked one.
C16_OrderIndependent ==
    (/\ xpc = "done"
     /\ \A i \in 1..Len(tx.tokenTransfers) : tx.tokenTransfers[i] \in WellFormedTransfers) =>
        /\ ~extracted.raised
        /\ \A f \in Orders(Len(tx.tokenTransfers)) :
              LET other == ExtractTransactionData(Permuted(tx, f))
              IN  /\ ~other.raised
                  /\ other.record.transaction_type = extracted.record.transaction_type
                  /\ other.record.tball_amount = extracted.record.tball_amount
                  /\ other.record.wsol_amount = extracted.record.wsol_amount
                  /\ other.record.other_token_amount = extracted.record.other_token_amount
        /\ extracted.record.transaction_type = "Swap" =>
              (NumTracked(tx) >= 1 /\ NumReference(tx) + NumOther(tx) >= 1)

\* The positions of the tracked-mint transfers of the transaction.
TrackedAt(raw) ==
    {i \in 1..Len(raw.tokenTransfers) :
        Get(raw.tokenTransfers[i], "mint", None) = TBALL_MINT_ADDRESS}

FirstOf(S) == CHOOSE i \in S : \A j \in S : i <= j
LastOf(S) == CHOOSE i \in S : \A j \in S : j <= i

\* C17: from_wallet is the fee payer when the transaction carries one, else
\* the sender of the first tracked-mint transfer, else unknown (None);
\* to_wallet is the receiver of the last tracked-mint transfer, else unknown.
C17_Wallets ==
    (xpc = "done" /\ ~extracted.raised) =>
        /\ extracted.record.from_wallet =
              IF Has(tx, "feePayer") THEN tx.feePayer
              ELSE IF TrackedAt(tx) # {}
              THEN tx.tokenTransfers[FirstOf(TrackedAt(tx))].fromUserAccount
              ELSE None
        /\ extracted.record.to_wallet =
              IF TrackedAt(tx) # {}
              THEN tx.tokenTransfers[LastOf(TrackedAt(tx))].toUserAccount
              ELSE None

\* No fee payer, and tracked-mint transfers whose first and last differ in
\* sender and receiver, with a transfer of another mint in front.
C17_Witness ==
    /\ xpc = "done"
    /\ ~extracted.raised
    /\ ~Has(tx, "feePayer")
    /\ Cardinality(TrackedAt(tx)) = 2
    /\ FirstOf(TrackedAt(tx)) = 2
    /\ extracted.record.from_wallet = tx.tokenTransfers[2].fromUserAccount
    /\ extracted.record.to_wallet = tx.tokenTransfers[3].toUserAccount
    /\ Has(tx.tokenTransfers[3], "fromUserAccount")
    /\ Has(tx.tokenTransfers[2], "toUserAccount")
    /\ tx.tokenTransfers[2].fromUserAccount # tx.tokenTransfers[3].fromUserAccount
    /\ tx.tokenTransfers[2].toUserAccount # tx.tokenTransfers[3].toUserAccount

\* The positions of the transfers that are neither tracked nor reference.
RemainingAt(raw) ==
    {i \in 1..Len(raw.tokenTransfers) :
        Get(raw.tokenTransfers[i], "mint", None) \in RemainingMints}

\* C23: other_token_mint is the mint of the first transfer, in input order,
\* that is neither tracked nor reference, None when there is none;
\* other_token_amount adds up the amounts of all those transfers, those of
\* later, different mints included.
C23_FirstOtherMintWins ==
    (xpc = "done" /\ ~extracted.raised) =>
        LET rec == extracted.record
            remaining == TransfersOf(tx, RemainingMints)
        IN  /\ rec.other_token_mint =
                  IF RemainingAt(tx) # {}
                  THEN tx.tokenTransfers[FirstOf(RemainingAt(tx))].mint
                  ELSE None
            /\ rec.other_token_amount = SumAmounts(remaining)
            /\ Tenths(rec.other_token_amount) = DecimalSum(remaining)

\* A tracked-mint transfer, then transfers of two different other mints: the
\* first names the mint, both are in the amount.
C23_Witness ==
    /\ xpc = "done"
    /\ ~extracted.raised
    /\ RemainingAt(tx) = {2, 3}
    /\ Get(tx.tokenTransfers[2], "mint", None) = "OtherMintY"
    /\ Get(tx.tokenTransfers[3], "mint", None) = "OtherMintX"
    /\ extracted.record.other_token_mint = "OtherMintY"
    /\ extracted.record.other_token_amount = "1.1"

\* The transaction with events.swap.innerSwaps set to sw and all else as it is.
WithInnerSwaps(raw, sw) ==
    [k \in DOMAIN raw \cup {"events"} |-> IF k = "events" THEN SwapEvents(sw) ELSE raw[k]]

\* C18: two transactions that differ only in events.swap.innerSwaps have
\* the same outcome: a record for both or for neither, and the same
\* transaction_type.
C18_InnerSwapsDoNotDecide ==
    xpc = "done" =>
        \A sw \in InnerSwapLists :
            LET other == ExtractTransactionData(WithInnerSwaps(tx, sw))
            IN  /\ other.raised = extracted.raised
                /\ ~extracted.raised =>
                      other.record.transaction_type = extracted.record.transaction_type

\* A transaction the claim calls malformed: a transfer whose amount is
\* missing or is no number, or an inner hop that lacks a field.
Malformed(raw) ==
    \/ \E i \in 1..Len(raw.tokenTransfers) :
          \/ ~Has(raw.tokenTransfers[i], "tokenAmount")
          \/ ~CanFloat(raw.tokenTransfers[i].tokenAmount)
    \/ \E i \in 1..Len(InnerSwaps(raw)) :
          \E j \in 1..Len(Get(InnerSwaps(raw)[i], "tokenInputs", <<>>)) :
              ~Has(InnerSwaps(raw)[i].tokenInputs[j], "mint")

\* The positions of the fetched list that hold a transaction (not an empty
\* object), malformed or not.
Present == {i \in 1..Len(tball_transactions) : Truthy(tball_transactions[i])}
MalformedAt == {i \in Present : Malformed(tball_transactions[i])}

RECURSIVE Ascending(_)
\* The elements of a set of numbers in ascending order.
Ascending(S) ==
    IF S = {} THEN <<>>
    ELSE LET m == CHOOSE x \in S : \A y \in S : x <= y
         IN  <<m>> \o Ascending(S \ {m})

\* C9: for a fetched list in which exactly one transaction is malformed,
\* the normalization step of main keeps one record for every other
\* transaction, in order, and reports one error, for the malformed one.
C9_Isolation ==
    (mpc = "normalized" /\ Cardinality(MalformedAt) = 1) =>
        /\ [i \in 1..Len(all_transactions) |-> all_transactions[i].signature]
              = Ascending(Present \ MalformedAt)
        /\ \A i \in 1..Len(all_transactions) :
              all_transactions[i].transaction_type \in {"Swap", "MultiSwap", "Transfer"}
        /\ reported = Ascending(MalformedAt)

\* Three fetched transactions, the second one malformed, two records kept.
C9_Witness ==
    /\ mpc = "normalized"
    /\ Present = {1, 2, 3}
    /\ MalformedAt = {2}
    /\ Len(all_transactions) = 2
    /\ reported = <<2>>

(***************************************************************************)
(* Properties of the retry loops.                                          *)
(***************************************************************************)

Requests == 1..Len(flog)

\* Every request of the run so far was answered 429, and there was one.
OnlyRateLimited == flog # <<>> /\ \A k \in Requests : flog[k].status = 429

\* What a caller gets from a fetch that succeeded and found nothing.
FoundNothing == ListResult(<<>>)

\* C4: against a collaborator that answers every request with 429, the
\* function issues exactly MAX_RETRIES requests in total and returns an
\* outcome the caller can tell from a successful fetch that found nothing.
C4_RetryBoundThenFailed ==
    (fpc = "done" /\ OnlyRateLimited) =>
        /\ Len(flog) = MAX_RETRIES
        /\ fresult # FoundNothing

\* The batch offsets whose MAX_RETRIES attempts were all answered 429.
ExhaustedBatches ==
    {b \in {flog[k].batch : k \in Requests} :
        /\ Cardinality({k \in Requests : flog[k].batch = b}) = MAX_RETRIES
        /\ \A k \in Requests : flog[k].batch = b => flog[k].status = 429}

\* The signatures of the batch at offset b.
BatchAt(b) == {signatures[i] : i \in (b + 1)..Min(b + batch_size, Len(signatures))}

\* C5: in parse_transactions_in_batches a batch that is rate-limited on all
\* MAX_RETRIES attempts aborts the fetch: no later batch is requested, and
\* the returned list holds none of the failed batch's transactions.
C5_ExhaustedBatchAborts ==
    fop = "parse_transactions_in_batches" =>
        \A b \in ExhaustedBatches :
            /\ \A k \in Requests : flog[k].batch <= b
            /\ (fpc = "done" /\ fresult.tag = "list") =>
                  \A i \in 1..Len(fresult.val) : fresult.val[i] \notin BatchAt(b)

\* C6: a response that is neither 200 nor 429 ends the operation at once:
\* it is the last request of the run, whatever the attempt counter.
C6_OtherErrorEndsOperation ==
    \A k \in Requests :
        flog[k].status \notin {200, 429} => (k = Len(flog) /\ fpc = "done")

\* A run ended by an error after some, but not all, attempts were used.
C6_Witness ==
    /\ fpc = "done"
    /\ Len(flog) >= 3
    /\ Last(flog).status = OtherStatus
    /\ retries > 0
    /\ retries < MAX_RETRIES - 1

RECURSIVE Received(_)
\* The data of the 200 answers of a log, concatenated in order.
Received(log) ==
    IF log = <<>> THEN <<>>
    ELSE (IF Head(log).status = 200 THEN Head(log).data ELSE <<>>) \o Received(Tail(log))

\* C7: when parse_transactions_in_batches meets an error other than 429 on
\* a batch after the first, the parsed transactions of the earlier batches
\* are returned to the caller.
C7_PartialResultsReturned ==
    (/\ fop = "parse_transactions_in_batches"
     /\ fpc = "done"
     /\ flog # <<>>
     /\ Last(flog).status = OtherStatus
     /\ Last(flog).batch > 0) =>
        fresult = ListResult(Received(flog))

\* C8: when get_tball_signatures meets an error other than 429 it returns
\* exactly the signatures of the earlier successful pages, in the order
\* received.
C8_PartialSignaturesReturned ==
    (/\ fop = "get_tball_signatures"
     /\ fpc = "done"
     /\ flog # <<>>
     /\ Last(flog).status = OtherStatus) =>
        fresult = ListResult(Received(flog))

\* An error after two successful pages and a rate-limit answer.
C8_Witness ==
    /\ fop = "get_tball_signatures"
    /\ fpc = "done"
    /\ Last(flog).status = OtherStatus
    /\ Cardinality({k \in Requests : flog[k].status = 200}) = 2
    /\ retries > 0
    /\ Len(fresult.val) = 2

\* The page size of get_tball_signatures: 10 in modules/market_data_fetcher.py,
\* the target count itself in data_collectors/market_data_fetcher.py.
PageSize == IF fvariant = "modules" THEN 10 ELSE limit

\* The number of signatures collected when request k was made.
CollectedBefore(k) == Len(Received(SubSeq(flog, 1, k - 1)))

\* C12: every page request of get_tball_signatures asks for
\* min(page size, target count - signatures collected so far), which is at
\* least 1; against a source that returns at most what was asked for, the
\* returned sequence has at most target-count signatures.
C12_PageRequestBounded ==
    fop = "get_tball_signatures" =>
        /\ \A k \in Requests :
              /\ flog[k].asked = Min(PageSize, limit - CollectedBefore(k))
              /\ flog[k].asked >= 1
        /\ fpc = "done" => (fresult.tag = "list" /\ Len(fresult.val) <= limit)

\* A run with a target above the page size: the first request asks for a
\* full page, a later one for the remainder, and the target is reached.
C12_Witness ==
    /\ fop = "get_tball_signatures"
    /\ fvariant = "modules"
    /\ fpc = "done"
    /\ limit > 10
    /\ flog[1].asked = 10
    /\ \E k \in Requests : flog[k].asked < 10 /\ flog[k].status = 200
    /\ Len(fresult.val) = limit

\* C13: the sequence get_tball_signatures returns holds no signature more
\* than once, whatever pages, rate-limit answers and errors the source
\* gives.
C13_NoDuplicateSignatures ==
    (fop = "get_tball_signatures" /\ fpc = "done") =>
        \A i \in 1..Len(fresult.val) : \A j \in 1..Len(fresult.val) :
            fresult.val[i] = fresult.val[j] => i = j

RECURSIVE RequestedTransactions(_)
\* The "transactions" of the requests of a log, concatenated in order.
RequestedTransactions(log) ==
    IF log = <<>> THEN <<>>
    ELSE Head(log).transactions \o RequestedTransactions(Tail(log))

\* A finished run of parse_transactions_in_batches of
\* modules/market_data_fetcher.py in which every request was answered 200.
AllBatchesSucceeded ==
    /\ fop = "parse_transactions_in_batches"
    /\ fvariant = "modules"
    /\ fpc = "done"
    /\ \A k \in Requests : flog[k].status = 200

\* C14: when every request succeeds, the batches requested, concatenated in
\* request order, are the input signature list, and each batch is non-empty
\* and holds at most batch_size signatures.
C14_BatchesPartitionInput ==
    AllBatchesSucceeded =>
        /\ RequestedTransactions(flog) = signatures
        /\ \A k \in Requests :
              /\ flog[k].transactions # <<>>
              /\ Len(flog[k].transactions) <= batch_size

\* Three signatures in batches of two: a full batch, then a shorter one.
C14_Witness ==
    /\ AllBatchesSucceeded
    /\ Len(signatures) = 3
    /\ batch_size = 2
    /\ Len(flog) = 2
    /\ Len(flog[2].transactions) = 1
    /\ fresult = ListResult(signatures)

\* The number of requests of the run so far that were answered `status`.
Answered(status) == Cardinality({k \in Requests : flog[k].status = status})

\* The number of requests made for the batch at offset b.
AttemptsFor(b) == Cardinality({k \in Requests : flog[k].batch = b})

\* The request bound of each function: the paginator gets at most
\* target-count success pages and MAX_RETRIES rate-limit answers, the two
\* fetchers make at most MAX_RETRIES attempts per batch.
RequestsBounded ==
    /\ fop = "get_tball_signatures" =>
          /\ Answered(200) <= limit
          /\ Answered(429) <= MAX_RETRIES
          /\ Len(flog) <= limit + MAX_RETRIES
    /\ fop = "get_tball_transactions" => Len(flog) <= MAX_RETRIES
    /\ fop = "parse_transactions_in_batches" =>
          \A k \in Requests : AttemptsFor(flog[k].batch) <= MAX_RETRIES

\* C21: when every request returns, every run of get_tball_signatures,
\* parse_transactions_in_batches and get_tball_transactions ends, whatever
\* the answers (page, empty page, rate limit, other error), and it never
\* makes more requests than its bound: target-count success pages plus
\* MAX_RETRIES rate-limited attempts for the paginator, MAX_RETRIES attempts
\* per batch for the fetchers.
C21_RunsTerminate == []RequestsBounded /\ <>(fpc = "done")

\* A walk that used what the bound allows: all MAX_RETRIES rate-limit
\* answers, and success pages of one signature up to one short of the target.
C21_Witness ==
    /\ fop = "get_tball_signatures"
    /\ fpc = "done"
    /\ limit = MaxLimit
    /\ Answered(429) = MAX_RETRIES
    /\ Answered(200) = limit - 1
    /\ Len(flog) = limit + MAX_RETRIES - 1

RECURSIVE CursorAfter(_)
\* The last signature of the most recent non-empty page of a log; 0 (None)
\* when the log holds no such page.
CursorAfter(log) ==
    IF log = <<>> THEN 0
    ELSE IF Last(log).status = 200 /\ Last(log).data # <<>> THEN Last(Last(log).data)
    ELSE CursorAfter(SubSeq(log, 1, Len(log) - 1))

\* C22: in get_tball_signatures every request carries as cursor the last
\* signature of the most recent non-empty page (None for the first); a 429
\* leaves the cursor and the collected signatures as they are, so the next
\* request is the same request; and no request follows once target-count
\* signatures are collected or a success page was empty.
C22_CursorWalk ==
    fop = "get_tball_signatures" =>
        /\ \A k \in Requests : flog[k].before = CursorAfter(SubSeq(flog, 1, k - 1))
        /\ before_signature = CursorAfter(flog)
        /\ signatures = Received(flog)
        /\ \A k \in Requests :
              (flog[k].status = 429 /\ k < Len(flog)) =>
                  /\ flog[k + 1].before = flog[k].before
                  /\ flog[k + 1].asked = flog[k].asked
        /\ \A k \in Requests : CollectedBefore(k) < limit
        /\ \A k \in Requests :
              (flog[k].status = 200 /\ flog[k].data = <<>>) =>
                  (k = Len(flog) /\ fpc = "done")
        /\ Len(signatures) >= limit =>
              (fpc = "done" \/ (ENABLED GS_Return /\ ~ENABLED GS_RateLimited))

\* A walk that was rate-limited after its first page and went on from the
\* same cursor to its target.
C22_Witness ==
    /\ fop = "get_tball_signatures"
    /\ fpc = "done"
    /\ Len(flog) = 3
    /\ flog[1].status = 200
    /\ flog[2].status = 429
    /\ flog[3].status = 200
    /\ flog[1].before = 0
    /\ flog[2].before = Last(flog[1].data)
    /\ flog[3].before = flog[2].before
    /\ Len(flog[1].data) = 2
    /\ Head(flog[1].data) # Last(flog[1].data)
    /\ Len(fresult.val) = limit

\* The number of requests for the batch at offset b that were answered 429.
RateLimitedFor(b) ==
    Cardinality({k \in Requests : flog[k].batch = b /\ flog[k].status = 429})

\* C24: in parse_transactions_in_batches of modules/market_data_fetcher.py
\* the attempt counter is that of the batch being fetched: it counts the
\* rate-limit answers to this batch's requests and none of an earlier
\* batch, so every batch starts with all MAX_RETRIES attempts.
C24_RetriesPerBatch ==
    (fop = "parse_transactions_in_batches" /\ fvariant = "modules") =>
        /\ fpc = "loop" =>
              /\ retries = RateLimitedFor(bi)
              /\ retries = AttemptsFor(bi)
        /\ \A k \in Requests :
              (k = 1 \/ flog[k - 1].batch # flog[k].batch) =>
                  Cardinality({j \in 1..(k - 1) : flog[j].batch = flog[k].batch}) = 0

\* A first batch that succeeded on its last attempt, and a second batch
\* that still got all MAX_RETRIES attempts.
C24_Witness ==
    /\ fop = "parse_transactions_in_batches"
    /\ fvariant = "modules"
    /\ fpc = "loop"
    /\ bi > 0
    /\ RateLimitedFor(0) = MAX_RETRIES - 1
    /\ AttemptsFor(0) = MAX_RETRIES
    /\ RateLimitedFor(bi) = MAX_RETRIES
    /\ retries = MAX_RETRIES

\* The number of 429 answers among the first n requests.
RateLimitedBefore(n) == Cardinality({j \in 1..n : flog[j].status = 429})

\* C25: in get_tball_signatures the attempt counter is the number of 429
\* answers of the whole walk, successful pages in between or not; once it
\* is MAX_RETRIES no further request is made, and the function returns the
\* signatures collected so far.
C25_RetriesCumulative ==
    fop = "get_tball_signatures" =>
        /\ retries = RateLimitedBefore(Len(flog))
        /\ \A k \in Requests : RateLimitedBefore(k - 1) < MAX_RETRIES
        /\ (fpc = "done" /\ retries = MAX_RETRIES) =>
              /\ Last(flog).status = 429
              /\ fresult = ListResult(signatures)
              /\ signatures = Received(flog)

\* A walk ended by its fifth rate-limit answer with a successful page
\* between the first and the last, short of its target.
C25_Witness ==
    /\ fop = "get_tball_signatures"
    /\ fpc = "done"
    /\ retries = MAX_RETRIES
    /\ flog[1].status = 429
    /\ \E k \in Requests : flog[k].status = 200 /\ flog[k].data # <<>>
    /\ Last(flog).status = 429
    /\ fresult.val # <<>>
    /\ Len(fresult.val) < limit

====
